---- MODULE Spec2Model ----
(***************************************************************************)
(* Model of models/train_classifier.py: the training script of the         *)
(* disaster-response pipeline.  One run of main() is a sequence of steps   *)
(* (load_data, train_test_split, build_model, fit, evaluate_model,         *)
(* save_model, save_report) over a small file system; an exception in any  *)
(* step propagates out of main() and ends the run.                         *)
(*                                                                         *)
(* Text is a sequence of atoms: " ", "\n", or a maximal run of non-blank   *)
(* characters, so that str.split and the filter of empty fields are        *)
(* computed as Python computes them.  Numbers printed in the report are    *)
(* hundredths (0..100), as the report prints two decimals.                 *)
(***************************************************************************)
EXTENDS Integers, Sequences, FiniteSets, TLC

VARIABLES fs, argv, pc, X, Y, category_names, split, model, eval, df_report,
          reads, steps, pre, runsLeft, text, lem, nltk_data

vars == <<fs, argv, pc, X, Y, category_names, split, model, eval, df_report,
          reads, steps, pre, runsLeft, text, lem, nltk_data>>

(*************************** bounds of the model ***************************)
MaxRows == 3
MaxCats == 2
MaxRuns == 2
MaxTextLen == 4

(**************************** program constants ****************************)
LabelOffset == 4
TestSizeNum == 2
TestSizeDen == 10
ReportSkipHead == 2
ReportSkipTail == 6
MaxFeaturesCap == 10000

(****************************** small helpers ******************************)
Range(s) == {s[i] : i \in DOMAIN s}

RECURSIVE SumSeq(_)
SumSeq(s) == IF s = <<>> THEN 0 ELSE Head(s) + SumSeq(Tail(s))

\* Python's s[a:b] on 0-based indices a <= b (already clamped to 0..Len).
Slice(s, a, b) == IF b <= a THEN <<>> ELSE SubSeq(s, a + 1, b)

\* Python's s[a:-b]: a negative stop counts from the end, clamped at 0.
SliceFromTo(s, a, b) ==
    LET stop == IF Len(s) - b < 0 THEN 0 ELSE Len(s) - b
        start == IF a > Len(s) THEN Len(s) ELSE a
    IN  Slice(s, start, stop)

RECURSIVE Join(_)
Join(ss) == IF ss = <<>> THEN <<>> ELSE Head(ss) \o Join(Tail(ss))

(******************************* file system *******************************)
ReportDbPath == "data/DisasterResponse.db"
OtherDbPath == "data/Other.db"
PicklePath == "classifier.pkl"
Paths == {ReportDbPath, OtherDbPath, PicklePath}

MetaColumns == <<"id", "message", "original", "genre">>
CategoryPool == <<"related", "request", "offer">>

NoTable == [columns |-> <<>>, rows |-> <<>>]
\* An estimator object: its class, the vectorizer's max_features (0 stands for
\* None, no cap) and, once fitted, the label values each output column saw.
NoEstimator ==
    [type |-> "none", fitted |-> FALSE, max_features |-> 0, classes |-> <<>>]
NoFile ==
    [kind |-> "absent", has_msgs |-> FALSE, msgs |-> NoTable,
     has_report |-> FALSE, report |-> <<>>, obj |-> NoEstimator]

\* A SQLite file holding the table Categorized_Messages and no report yet.
DbFile(t) ==
    [kind |-> "db", has_msgs |-> TRUE, msgs |-> t,
     has_report |-> FALSE, report |-> <<>>, obj |-> NoEstimator]

\* The file pickle.dump leaves: the bytes of one pickled estimator.
PickleFile(est) == [NoFile EXCEPT !.kind = "pkl", !.obj = est]

\* The file open(path, 'wb') leaves before anything is written to it.
TruncatedFile == [NoFile EXCEPT !.kind = "empty"]

\* One row of Categorized_Messages: id, message, original, genre, labels.
\* The message is identified by its row id; original and genre are unused.
Row(i, labels) == <<i, i, 0, 0>> \o labels

LabelVectors(k) == [1..k -> {0, 1}]

\* The label vector read as a binary number.
LabelCode(l) == SumSeq([c \in 1..Len(l) |-> l[c] * (2 ^ (c - 1))])

\* The tables of up to maxRows rows and 2..maxCats category columns, rows
\* listed by label code: train_test_split shuffles the rows, so their order
\* in the table carries nothing.
Tables(maxRows, maxCats) ==
    UNION { UNION { { [columns |-> MetaColumns \o SubSeq(CategoryPool, 1, k),
                       rows |-> [i \in 1..n |-> Row(i, ls[i])]] :
                      ls \in { f \in [1..n -> LabelVectors(k)] :
                                 \A i \in 1..(n - 1) :
                                     LabelCode(f[i]) <= LabelCode(f[i + 1]) } } :
                    n \in 1..maxRows } :
            k \in 2..maxCats }

\* The two-message table of the end-to-end scenario: one message per label.
ScenarioTable ==
    [columns |-> MetaColumns \o <<"water", "food">>,
     rows |-> <<Row(1, <<1, 0>>), Row(2, <<0, 1>>)>>]

(******************************** load_data ********************************)
ColumnIndex(t, name) == CHOOSE j \in 1..Len(t.columns) : t.columns[j] = name

\* df.iloc[:, 4:] of one row / of the header.
IlocFrom(s, offset) == SliceFromTo(s, offset, 0)

LoadOk(file) == file.kind = "db" /\ file.has_msgs

\* Mutant: the label columns taken from offset 3, df.iloc[:, 3:].
load_data_from_three(file) ==
    LET df == file.msgs
    IN  [X |-> [i \in 1..Len(df.rows) |-> df.rows[i][ColumnIndex(df, "message")]],
         Y |-> [i \in 1..Len(df.rows) |-> IlocFrom(df.rows[i], LabelOffset - 1)],
         category_names |-> IlocFrom(df.columns, LabelOffset - 1)]

load_data(file) ==
    LET df == file.msgs
    IN  [X |-> [i \in 1..Len(df.rows) |-> df.rows[i][ColumnIndex(df, "message")]],
         Y |-> [i \in 1..Len(df.rows) |-> IlocFrom(df.rows[i], LabelOffset)],
         category_names |-> IlocFrom(df.columns, LabelOffset)]

(***************************** train_test_split ****************************)
\* n_test = ceil(test_size * n); the train set must not be empty.
NTest(n) == (n * TestSizeNum + TestSizeDen - 1) \div TestSizeDen

SplitOk(n) == n >= 1 /\ n - NTest(n) >= 1

\* The shuffled test indices: any NTest(n) distinct rows, in any order.
TestChoices(n) ==
    { s \in [1..NTest(n) -> 1..n] :
        \A i, j \in 1..NTest(n) : i # j => s[i] # s[j] }

RECURSIVE Ascending(_)
Ascending(S) ==
    IF S = {} THEN <<>>
    ELSE LET m == CHOOSE x \in S : \A y \in S : x <= y
         IN  <<m>> \o Ascending(S \ {m})

train_test_split(n, test) ==
    [test |-> test, train |-> Ascending((1..n) \ Range(test))]

Take(s, idx) == [i \in 1..Len(idx) |-> s[idx[i]]]

(******************************* build_model *******************************)
\* The pipeline as constructed: CountVectorizer(max_features=None), unfitted.
Pipeline(max_features) ==
    [type |-> "Pipeline", fitted |-> FALSE, max_features |-> max_features,
     classes |-> <<>>]

\* param_grid 'text_pipeline__vect__max_features': (None, 10000), in order.
ParamGrid == <<0, MaxFeaturesCap>>

ScoreLevels == {0, 1}

build_model ==
    [estimator |-> Pipeline(0), param_grid |-> ParamGrid, fitted |-> FALSE,
     mean_test_score |-> <<>>, best_index_ |-> 0, best_params_ |-> 0,
     best_estimator_ |-> NoEstimator]

NoModel == [build_model EXCEPT !.param_grid = <<>>, !.estimator = NoEstimator]

(************************ GridSearchCV.fit / predict ***********************)
\* The labels column c of the training rows holds: what the one-vs-rest
\* classifier of that column can answer.
ClassesSeen(Y_train) ==
    IF Y_train = <<>> THEN <<>>
    ELSE [c \in 1..Len(Y_train[1]) |-> {Y_train[i][c] : i \in 1..Len(Y_train)}]

\* Pipeline.fit on the training rows.
FitPipeline(est, Y_train) ==
    [est EXCEPT !.fitted = TRUE, !.classes = ClassesSeen(Y_train)]

\* best_index_: the candidate of rank 1, the first one on a tie.
BestIndex(scores) ==
    CHOOSE i \in 1..Len(scores) :
        /\ \A j \in 1..Len(scores) : scores[j] <= scores[i]
        /\ \A j \in 1..(i - 1) : scores[j] < scores[i]

\* GridSearchCV.fit with refit=True (the default): scores[i] is the
\* cross-validated macro F1 of candidate i.
GridSearchFit(cv, Y_train, scores) ==
    LET b == BestIndex(scores)
    IN  [cv EXCEPT !.fitted = TRUE,
                   !.mean_test_score = scores,
                   !.best_index_ = b,
                   !.best_params_ = cv.param_grid[b],
                   !.best_estimator_ =
                       FitPipeline([cv.estimator EXCEPT
                                       !.max_features = cv.param_grid[b]],
                                   Y_train)]

\* What est.predict can return for n inputs: one row per input, one entry per
\* output column, each entry a class that column saw in training.
Predictions(est, n) ==
    { P \in [1..n -> [1..Len(est.classes) -> UNION Range(est.classes)]] :
        \A i \in 1..n : \A c \in 1..Len(est.classes) : P[i][c] \in est.classes[c] }

\* GridSearchCV.predict delegates to best_estimator_.
PredictorOf(cv) == cv.best_estimator_

(************************** classification_report **************************)
\* Per-column counts of a multilabel prediction: true positives, false
\* positives, false negatives.
Count(S) == Cardinality(S)

TP(Yt, Yp, c) == Count({i \in 1..Len(Yt) : Yt[i][c] = 1 /\ Yp[i][c] = 1})
FP(Yt, Yp, c) == Count({i \in 1..Len(Yt) : Yt[i][c] # 1 /\ Yp[i][c] = 1})
FN(Yt, Yp, c) == Count({i \in 1..Len(Yt) : Yt[i][c] = 1 /\ Yp[i][c] # 1})

\* num/den in hundredths, rounded to the nearest; 0 when den = 0
\* (zero_division's default prints 0.00).
Ratio(num, den) == IF den = 0 THEN 0 ELSE (200 * num + den) \div (2 * den)

Precision(tp, fp, fn) == Ratio(tp, tp + fp)
Recall(tp, fp, fn) == Ratio(tp, tp + fn)
F1(tp, fp, fn) == Ratio(2 * tp, 2 * tp + fp + fn)
\* support: the number of true instances of the label.
Support(tp, fp, fn) == tp + fn

Digit == <<"0", "1", "2", "3", "4", "5", "6", "7", "8", "9">>

\* '{:>9.2f}' of a value given in hundredths, without the padding.
Fmt2(h) ==
    Digit[(h \div 100) + 1] \o "." \o Digit[((h \div 10) % 10) + 1]
        \o Digit[(h % 10) + 1]

\* '{:>9}' of a count, without the padding.
RECURSIVE FmtInt(_)
FmtInt(n) ==
    IF n < 10 THEN Digit[n + 1] ELSE FmtInt(n \div 10) \o Digit[(n % 10) + 1]

Pad == <<" ", " ">>

\* row_fmt: the right-aligned name, then precision, recall, f1-score and
\* support, each after blanks, then a newline.  name is a sequence of atoms.
ReportRow(name, tp, fp, fn) ==
    Pad \o name \o Pad \o <<Fmt2(Precision(tp, fp, fn))>>
        \o Pad \o <<Fmt2(Recall(tp, fp, fn))>>
        \o Pad \o <<Fmt2(F1(tp, fp, fn))>>
        \o Pad \o <<FmtInt(Support(tp, fp, fn))>> \o <<"\n">>

ReportHeader ==
    Pad \o Pad \o <<"precision">> \o Pad \o <<"recall">> \o Pad
        \o <<"f1-score">> \o Pad \o <<"support">> \o <<"\n">>

\* The aggregate rows of a multilabel report, in the order they are printed.
AverageNames ==
    << <<"micro", " ", "avg">>, <<"macro", " ", "avg">>,
       <<"weighted", " ", "avg">>, <<"samples", " ", "avg">> >>

\* The aggregate rows print averages of the per-label figures; every one of
\* them is printed from the pooled counts here (their figures are not used).
AverageRows(Yt, Yp, k) ==
    LET tp == SumSeq([c \in 1..k |-> TP(Yt, Yp, c)])
        fp == SumSeq([c \in 1..k |-> FP(Yt, Yp, c)])
        fn == SumSeq([c \in 1..k |-> FN(Yt, Yp, c)])
    IN  Join([a \in 1..Len(AverageNames) |-> ReportRow(AverageNames[a], tp, fp, fn)])

\* sklearn.metrics.classification_report(Y_test, Y_pred, target_names=...)
\* for multilabel targets: header, blank line, one row per label in the order
\* of target_names, blank line, the four average rows.
classification_report(Yt, Yp, target_names) ==
    LET k == Len(target_names)
    IN  ReportHeader \o <<"\n">>
        \o Join([c \in 1..k |->
                   ReportRow(<<target_names[c]>>, TP(Yt, Yp, c), FP(Yt, Yp, c),
                             FN(Yt, Yp, c))])
        \o <<"\n">> \o AverageRows(Yt, Yp, k)

(************************* classification_report_df ************************)
\* str.split(sep): the pieces between separators, empty pieces included; a
\* text with n separators has n + 1 pieces.
RECURSIVE SplitOn(_, _)
SplitOn(s, sep) ==
    IF \A i \in 1..Len(s) : s[i] # sep THEN <<s>>
    ELSE LET j == CHOOSE i \in 1..Len(s) :
                      s[i] = sep /\ \A h \in 1..(i - 1) : s[h] # sep
         IN  <<SubSeq(s, 1, j - 1)>> \o SplitOn(SubSeq(s, j + 1, Len(s)), sep)

\* list(filter(None, row_data)): the non-empty pieces; each is one atom here.
FilterNonEmpty(pieces) ==
    LET F[i \in 0..Len(pieces)] ==
            IF i = 0 THEN <<>>
            ELSE IF pieces[i] = <<>> THEN F[i - 1] ELSE F[i - 1] \o pieces[i]
    IN  F[Len(pieces)]

\* The largest count a report of the model prints.
MaxCount == MaxRows * (MaxCats + 1)

\* The numbers a report prints: ratios with two decimals, and counts.
PrintedRatios == [h \in 0..100 |-> Fmt2(h)]
PrintedCounts == [n \in 0..MaxCount |-> FmtInt(n)]

\* float(s): defined on the printed numbers only (ValueError otherwise).
IsFloat(s) ==
    \/ \E h \in 0..100 : PrintedRatios[h] = s
    \/ \E n \in 0..MaxCount : PrintedCounts[n] = s

\* The value in hundredths.
Float(s) ==
    IF \E h \in 0..100 : PrintedRatios[h] = s
    THEN CHOOSE h \in 0..100 : PrintedRatios[h] = s
    ELSE 100 * (CHOOSE n \in 0..MaxCount : PrintedCounts[n] = s)

\* Mutants: the slice written as lines[3:-6], and as lines[2:-5].
KeptLinesFromThree(lines) == SliceFromTo(lines, ReportSkipHead + 1, ReportSkipTail)
KeptLinesToFive(lines) == SliceFromTo(lines, ReportSkipHead, ReportSkipTail - 1)

\* The lines kept: lines[2:-6].
KeptLines(lines) == SliceFromTo(lines, ReportSkipHead, ReportSkipTail)

RowFields(line) == FilterNonEmpty(SplitOn(line, " "))

\* A line the loop body accepts: five fields, the last four numbers.
RowOk(line) ==
    LET row_data == RowFields(line)
    IN  /\ Len(row_data) >= 5
        /\ \A j \in 2..5 : IsFloat(row_data[j])

\* Mutant: support read from the f1-score field, row_data[3].
ParseRowSupportShifted(line) ==
    LET row_data == RowFields(line)
    IN  [class |-> row_data[1], precision |-> Float(row_data[2]),
         recall |-> Float(row_data[3]), f1_score |-> Float(row_data[4]),
         support |-> Float(row_data[4])]

ParseRow(line) ==
    LET row_data == RowFields(line)
    IN  [class |-> row_data[1], precision |-> Float(row_data[2]),
         recall |-> Float(row_data[3]), f1_score |-> Float(row_data[4]),
         support |-> Float(row_data[5])]

ReportOk(report) ==
    \A l \in Range(KeptLines(SplitOn(report, "\n"))) : RowOk(l)

classification_report_df(report) ==
    LET lines == KeptLines(SplitOn(report, "\n"))
    IN  [i \in 1..Len(lines) |-> ParseRow(lines[i])]

(********************************* tokenize ********************************)
\* Text is a sequence of characters here.  The characters the model writes
\* texts with: letters, one of them upper case, a punctuation mark, a blank.
Alphabet == {"d", "o", "n", "e", "s", "D", "!", " "}

LowerCaseLetters == {"d", "o", "n", "e", "s"}
UpperCaseLetters == {"D"}
Digits == Range(Digit)

\* str.lower on one character.
Lower(c) == IF c = "D" THEN "d" ELSE c

\* [a-zA-Z0-9]
IsAlnum(c) == c \in LowerCaseLetters \cup UpperCaseLetters \cup Digits

\* re.sub(r'[^a-zA-Z0-9]', ' ', text.lower())
Normalize(t) ==
    [i \in 1..Len(t) |-> IF IsAlnum(Lower(t[i])) THEN Lower(t[i]) ELSE " "]

\* word_tokenize on a text of letters, digits and blanks: the maximal runs of
\* non-blank characters (no contraction of the tokenizer's list can be
\* written with the alphabet).
word_tokenize(t) ==
    LET pieces == SplitOn(t, " ")
        F[i \in 0..Len(pieces)] ==
            IF i = 0 THEN <<>>
            ELSE IF pieces[i] = <<>> THEN F[i - 1]
                 ELSE Append(F[i - 1], pieces[i])
    IN  F[Len(pieces)]

W1(a) == <<a>>
W2(a, b) == <<a, b>>
W3(a, b, c) == <<a, b, c>>
W4(a, b, c, d) == <<a, b, c, d>>
W5(a, b, c, d, e) == <<a, b, c, d, e>>

\* stopwords.words('english'), the entries written with the alphabet.
StopWords ==
    { W1("s"), W1("d"), W1("o"), W2("d", "o"), W2("n", "o"), W2("o", "n"),
      W2("s", "o"), W3("d", "o", "n"), W4("d", "o", "e", "s"),
      W5("d", "o", "e", "s", "n"), W5("n", "e", "e", "d", "n") }

\* WordNet's lemmas, the entries written with the alphabet that the model
\* uses; a word outside them is returned by the lemmatizer as it is.
NounLemmas ==
    { W2("d", "o"), W2("n", "o"), W2("s", "o"), W3("d", "o", "n"),
      W3("d", "o", "e"), W3("d", "e", "n"), W3("e", "n", "d"),
      W3("e", "o", "n"), W3("n", "o", "d"), W3("o", "d", "e"),
      W3("o", "n", "e"), W3("s", "o", "n"), W3("s", "o", "d"),
      W4("n", "o", "d", "e"), W4("n", "o", "s", "e"), W4("d", "o", "s", "e"),
      W4("s", "e", "e", "d"), W4("n", "e", "e", "d") }

VerbLemmas ==
    { W2("d", "o"), W3("d", "o", "n"), W3("e", "n", "d"), W3("n", "o", "d"),
      W3("s", "e", "e"), W4("n", "e", "e", "d"), W4("s", "e", "e", "d"),
      W4("s", "e", "n", "d"), W4("n", "o", "s", "e"), W4("d", "o", "s", "e") }

\* The irregular forms (noun.exc has none written with the alphabet).
NounExceptions == {}
VerbExceptions ==
    { <<W4("d", "o", "n", "e"), W2("d", "o")>>,
      <<W4("s", "e", "e", "n"), W3("s", "e", "e")>> }

\* MORPHOLOGICAL_SUBSTITUTIONS, the rules whose suffix the alphabet writes.
NounRules == << <<W1("s"), <<>> >>, <<W3("s", "e", "s"), W1("s")>> >>
VerbRules ==
    << <<W1("s"), <<>> >>, <<W2("e", "s"), W1("e")>>, <<W2("e", "s"), <<>> >>,
       <<W2("e", "d"), W1("e")>>, <<W2("e", "d"), <<>> >> >>

EndsWith(w, suf) ==
    Len(suf) <= Len(w) /\ SubSeq(w, Len(w) - Len(suf) + 1, Len(w)) = suf

\* apply_rules on one form: every rule whose suffix ends the form.
ApplyRules(w, rules) ==
    { SubSeq(w, 1, Len(w) - Len(rules[r][1])) \o rules[r][2] :
        r \in { q \in 1..Len(rules) : EndsWith(w, rules[q][1]) } }

\* The candidates of wordnet._morphy: the irregular forms of the word if it
\* has any, else the word and its rule-stripped forms, the lemmas among
\* them; if none, the rules are applied again to the stripped forms.
RECURSIVE MorphyAgain(_, _, _, _)
MorphyAgain(forms, rules, lemmas, fuel) ==
    LET next == UNION { ApplyRules(f, rules) : f \in forms }
    IN  IF next = {} \/ fuel = 0 THEN {}
        ELSE IF next \cap lemmas # {} THEN next \cap lemmas
        ELSE MorphyAgain(next, rules, lemmas, fuel - 1)

Morphy(w, rules, lemmas, exceptions) ==
    IF \E x \in exceptions : x[1] = w
    THEN ({w} \cup {x[2] : x \in {y \in exceptions : y[1] = w}}) \cap lemmas
    ELSE LET first == ({w} \cup ApplyRules(w, rules)) \cap lemmas
         IN  IF first # {} THEN first
             ELSE MorphyAgain(ApplyRules(w, rules), rules, lemmas, Len(w))

\* WordNetLemmatizer.lemmatize: a shortest candidate, or the word itself.
Lemmatize(w, rules, lemmas, exceptions) ==
    LET cands == Morphy(w, rules, lemmas, exceptions)
    IN  IF cands = {} THEN w
        ELSE CHOOSE c \in cands : \A d \in cands : Len(c) <= Len(d)

LemmatizeNoun(w) == Lemmatize(w, NounRules, NounLemmas, NounExceptions)
LemmatizeVerb(w) == Lemmatize(w, VerbRules, VerbLemmas, VerbExceptions)

\* The words left after the stop-word filter.
RemoveStopWords(words) ==
    LET F[i \in 0..Len(words)] ==
            IF i = 0 THEN <<>>
            ELSE IF words[i] \in StopWords THEN F[i - 1]
                 ELSE Append(F[i - 1], words[i])
    IN  F[Len(words)]

tokenize(t) ==
    LET words == RemoveStopWords(word_tokenize(Normalize(t)))
        nouns == [i \in 1..Len(words) |-> LemmatizeNoun(words[i])]
    IN  [i \in 1..Len(nouns) |-> LemmatizeVerb(nouns[i])]

(****************************** evaluate_model *****************************)
NoEval == [Y_test |-> <<>>, Y_pred |-> <<>>, report |-> <<>>,
           estimator |-> NoEstimator]

\* Y_pred = model.predict(X_test); report = classification_report(...).
evaluate_model(cv, Y_test, Y_pred, names) ==
    [Y_test |-> Y_test, Y_pred |-> Y_pred,
     report |-> classification_report(Y_test, Y_pred, names),
     estimator |-> PredictorOf(cv)]

(******************************** save_model *******************************)
\* Mutant: pickle.dump(model, ...), the search wrapper itself.
PickledWrapper(cv) == [cv.best_estimator_ EXCEPT !.type = "GridSearchCV"]

\* The object handed to pickle.dump: model.best_estimator_.
PickledObject(cv) == cv.best_estimator_

\* pickle.dump(obj, open(model_filepath, 'wb')): the file is replaced whole.
save_model(cv) == PickleFile(PickledObject(cv))

(******************************* save_report *******************************)
\* SQLite opens a database file, a 0-byte file, or creates a missing one; any
\* other content is "file is not a database".
SqliteOpens(file) == file.kind \in {"db", "empty", "absent"}

\* Mutants: if_exists='append', and a report database written from scratch.
save_report_append(file, rows) ==
    [kind |-> "db", has_msgs |-> file.has_msgs, msgs |-> file.msgs,
     has_report |-> TRUE, report |-> file.report \o rows, obj |-> NoEstimator]
save_report_fresh(file, rows) ==
    [kind |-> "db", has_msgs |-> FALSE, msgs |-> NoTable,
     has_report |-> TRUE, report |-> rows, obj |-> NoEstimator]

\* to_sql('df_report', engine, index=False, if_exists='replace') on the file
\* at the hard-coded path: the table df_report is dropped and created anew,
\* every other table of the file is kept.
save_report(file, rows) ==
    [kind |-> "db", has_msgs |-> file.has_msgs, msgs |-> file.msgs,
     has_report |-> TRUE, report |-> rows, obj |-> NoEstimator]

(*********************************** main **********************************)
Script == "train_classifier.py"

ArgvChoices ==
    {<<Script>>}
        \cup {<<Script, p>> : p \in Paths}
        \cup {<<Script, p, q>> : p \in Paths, q \in Paths}
        \cup {<<Script, p, q, "extra">> : p \in {ReportDbPath}, q \in Paths}

\* Mutant: the guard written as len(sys.argv) >= 3.
ArgCountAtLeast == Len(argv) >= 3

\* if len(sys.argv) == 3
ArgCountOk == Len(argv) = 3

database_filepath == argv[2]
model_filepath == argv[3]

Halted == pc \in {"idle", "usage", "failed", "done"}

RunLocalReset ==
    /\ X' = <<>>
    /\ Y' = <<>>
    /\ category_names' = <<>>
    /\ split' = [test |-> <<>>, train |-> <<>>]
    /\ model' = NoModel
    /\ eval' = NoEval
    /\ df_report' = <<>>
    /\ reads' = 0
    /\ steps' = <<>>

\* The script is started with some command line; importing the module
\* downloads the NLTK corpora (nltk.download at module level), whatever the
\* arguments are.
Start ==
    /\ Halted
    /\ runsLeft > 0
    /\ \E a \in ArgvChoices : argv' = a
    /\ pc' = "main"
    /\ runsLeft' = runsLeft - 1
    /\ pre' = fs
    /\ RunLocalReset
    /\ nltk_data' = TRUE
    /\ UNCHANGED <<fs, text, lem>>

\* len(sys.argv) # 3: the usage message, nothing else.
Usage ==
    /\ pc = "main"
    /\ ~ArgCountOk
    /\ pc' = "usage"
    /\ steps' = Append(steps, "usage")
    /\ UNCHANGED <<fs, argv, X, Y, category_names, split, model, eval,
                   df_report, reads, pre, runsLeft, text, lem, nltk_data>>

\* X, Y, category_names = load_data(database_filepath)
LoadData ==
    /\ pc = "main"
    /\ ArgCountOk
    /\ steps' = Append(steps, "load_data")
    /\ IF LoadOk(fs[database_filepath])
       THEN LET r == load_data(fs[database_filepath])
            IN  /\ X' = r.X
                /\ Y' = r.Y
                /\ category_names' = r.category_names
                /\ reads' = reads + 1
                /\ pc' = "loaded"
       ELSE /\ pc' = "failed"
            /\ UNCHANGED <<X, Y, category_names, reads>>
    /\ UNCHANGED <<fs, argv, split, model, eval, df_report, pre, runsLeft,
                   text, lem, nltk_data>>

\* X_train, X_test, Y_train, Y_test = train_test_split(X, Y, test_size=0.2)
Split ==
    /\ pc = "loaded"
    /\ steps' = Append(steps, "train_test_split")
    /\ IF SplitOk(Len(X))
       THEN \E test \in TestChoices(Len(X)) :
                /\ split' = train_test_split(Len(X), test)
                /\ pc' = "split"
       ELSE /\ pc' = "failed"
            /\ UNCHANGED split
    /\ UNCHANGED <<fs, argv, X, Y, category_names, model, eval, df_report,
                   reads, pre, runsLeft, text, lem, nltk_data>>

\* model = build_model()
BuildModel ==
    /\ pc = "split"
    /\ steps' = Append(steps, "build_model")
    /\ model' = build_model
    /\ pc' = "built"
    /\ UNCHANGED <<fs, argv, X, Y, category_names, split, eval, df_report,
                   reads, pre, runsLeft, text, lem, nltk_data>>

\* model.fit(X_train, Y_train): the search scores every candidate and refits
\* the best one, or the library raises (too few rows for the folds, ...).
Fit ==
    /\ pc = "built"
    /\ steps' = Append(steps, "fit")
    /\ \/ \E scores \in [1..Len(model.param_grid) -> ScoreLevels] :
              /\ model' = GridSearchFit(model, Take(Y, split.train), scores)
              /\ pc' = "fitted"
       \/ /\ pc' = "failed"
          /\ UNCHANGED model
    /\ UNCHANGED <<fs, argv, X, Y, category_names, split, eval, df_report,
                   reads, pre, runsLeft, text, lem, nltk_data>>

\* df_report = evaluate_model(model, X_test, Y_test, category_names)
Evaluate ==
    /\ pc = "fitted"
    /\ steps' = Append(steps, "evaluate_model")
    /\ \E Y_pred \in Predictions(PredictorOf(model), Len(split.test)) :
          LET e == evaluate_model(model, Take(Y, split.test), Y_pred,
                                  category_names)
          IN  /\ eval' = e
              /\ IF ReportOk(e.report)
                 THEN /\ df_report' = classification_report_df(e.report)
                      /\ pc' = "evaluated"
                 ELSE /\ pc' = "failed"
                      /\ UNCHANGED df_report
    /\ UNCHANGED <<fs, argv, X, Y, category_names, split, model, reads, pre,
                   runsLeft, text, lem, nltk_data>>

\* save_model(model, model_filepath): open(..., 'wb') raises and nothing is
\* written, or the file is truncated and the dump then succeeds or raises.
SaveModel ==
    /\ pc = "evaluated"
    /\ steps' = Append(steps, "save_model")
    /\ \/ /\ fs' = [fs EXCEPT ![model_filepath] = save_model(model)]
          /\ pc' = "model_saved"
       \/ /\ fs' = [fs EXCEPT ![model_filepath] = TruncatedFile]
          /\ pc' = "failed"
       \/ /\ pc' = "failed"
          /\ UNCHANGED fs
    /\ UNCHANGED <<argv, X, Y, category_names, split, model, eval, df_report,
                   reads, pre, runsLeft, text, lem, nltk_data>>

\* Mutant: save_report called right after evaluate_model, before save_model.
SaveReportEarly ==
    /\ pc = "evaluated"
    /\ steps' = Append(steps, "save_report")
    /\ SqliteOpens(fs[ReportDbPath])
    /\ fs' = [fs EXCEPT ![ReportDbPath] = save_report(@, df_report)]
    /\ pc' = "done"
    /\ UNCHANGED <<argv, X, Y, category_names, split, model, eval, df_report,
                   reads, pre, runsLeft, text, lem, nltk_data>>

\* save_report(df_report): to_sql on the hard-coded database, or SQLite
\* raises (not a database, locked, directory missing).
SaveReport ==
    /\ pc = "model_saved"
    /\ steps' = Append(steps, "save_report")
    /\ \/ /\ SqliteOpens(fs[ReportDbPath])
          /\ fs' = [fs EXCEPT ![ReportDbPath] = save_report(@, df_report)]
          /\ pc' = "done"
       \/ /\ pc' = "failed"
          /\ UNCHANGED fs
    /\ UNCHANGED <<argv, X, Y, category_names, split, model, eval, df_report,
                   reads, pre, runsLeft, text, lem, nltk_data>>

Next ==
    \/ Start
    \/ Usage
    \/ LoadData
    \/ Split
    \/ BuildModel
    \/ Fit
    \/ Evaluate
    \/ SaveModel
    \/ SaveReport

\* The documented invocation, once:
\* python train_classifier.py data/DisasterResponse.db classifier.pkl
TrainOnce ==
    /\ Halted
    /\ runsLeft > 0
    /\ argv' = <<Script, ReportDbPath, PicklePath>>
    /\ pc' = "main"
    /\ runsLeft' = runsLeft - 1
    /\ pre' = fs
    /\ RunLocalReset
    /\ nltk_data' = TRUE
    /\ UNCHANGED <<fs, text, lem>>

NextEval ==
    \/ TrainOnce
    \/ LoadData
    \/ Split
    \/ BuildModel
    \/ Fit
    \/ Evaluate
    \/ SaveModel
    \/ SaveReport

\* The files before the first run: both databases hold the labelled
\* messages (the report database may also be missing), no model file yet.
InitFiles(t) ==
    { [p \in Paths |->
          IF p = ReportDbPath THEN r
          ELSE IF p = OtherDbPath THEN DbFile(t) ELSE NoFile] :
      r \in {DbFile(t), NoFile} }

InitRun ==
    /\ argv = <<Script>>
    /\ pc = "idle"
    /\ X = <<>>
    /\ Y = <<>>
    /\ category_names = <<>>
    /\ split = [test |-> <<>>, train |-> <<>>]
    /\ model = NoModel
    /\ eval = NoEval
    /\ df_report = <<>>
    /\ reads = 0
    /\ steps = <<>>
    /\ text = <<>>
    /\ lem = <<>>
    /\ nltk_data = FALSE

\* Any command line, run after run, on the scenario's table.
Init ==
    /\ fs \in InitFiles(ScenarioTable)
    /\ pre = fs
    /\ runsLeft = MaxRuns
    /\ InitRun

Spec == Init /\ [][Next]_vars

\* One documented run on any table of the bounds.
InitEval ==
    /\ \E t \in Tables(MaxRows, MaxCats) :
          fs = [p \in Paths |-> IF p = ReportDbPath THEN DbFile(t) ELSE NoFile]
    /\ pre = fs
    /\ runsLeft = 1
    /\ InitRun

SpecEval == InitEval /\ [][NextEval]_vars

(************************ tokenize on its own inputs ***********************)
Texts == UNION { [1..n -> Alphabet] : n \in 0..MaxTextLen }

\* CountVectorizer calls tokenize on one message.
Tokenize ==
    /\ pc = "text"
    /\ lem' = tokenize(text)
    /\ pc' = "tokens"
    /\ UNCHANGED <<fs, argv, X, Y, category_names, split, model, eval,
                   df_report, reads, steps, pre, runsLeft, text, nltk_data>>

NextTok == Tokenize

InitIdle ==
    /\ fs = [p \in Paths |-> NoFile]
    /\ pre = fs
    /\ runsLeft = 0
    /\ argv = <<Script>>
    /\ X = <<>>
    /\ Y = <<>>
    /\ split = [test |-> <<>>, train |-> <<>>]
    /\ model = NoModel
    /\ reads = 0
    /\ steps = <<>>
    /\ nltk_data = TRUE

InitTok ==
    /\ text \in Texts
    /\ lem = <<>>
    /\ pc = "text"
    /\ category_names = <<>>
    /\ eval = NoEval
    /\ df_report = <<>>
    /\ InitIdle

SpecTok == InitTok /\ [][NextTok]_vars

(***************** classification_report_df on its own inputs **************)
LabelMatrices(n, k) == [1..n -> [1..k -> {0, 1}]]

ReportRows == {1, 2}

\* The reports of up to MaxCats labels (none included) over one or two rows.
ReportInputs ==
    UNION { UNION { { [names |-> SubSeq(CategoryPool, 1, k), Yt |-> yt, Yp |-> yp] :
                      yt \in LabelMatrices(n, k), yp \in LabelMatrices(n, k) } :
                    n \in ReportRows } :
            k \in 0..MaxCats }

\* df_report = classification_report_df(report)
ParseReport ==
    /\ pc = "report"
    /\ IF ReportOk(eval.report)
       THEN /\ df_report' = classification_report_df(eval.report)
            /\ pc' = "parsed"
       ELSE /\ pc' = "failed"
            /\ UNCHANGED df_report
    /\ UNCHANGED <<fs, argv, X, Y, category_names, split, model, eval,
                   reads, steps, pre, runsLeft, text, lem, nltk_data>>

NextReport == ParseReport

InitReport ==
    /\ \E inp \in ReportInputs :
          /\ category_names = inp.names
          /\ eval = [Y_test |-> inp.Yt, Y_pred |-> inp.Yp,
                     report |-> classification_report(inp.Yt, inp.Yp, inp.names),
                     estimator |-> NoEstimator]
    /\ df_report = <<>>
    /\ pc = "report"
    /\ text = <<>>
    /\ lem = <<>>
    /\ InitIdle

SpecReport == InitReport /\ [][NextReport]_vars

(********************************* claims **********************************)
StepOrder ==
    <<"load_data", "train_test_split", "build_model", "fit", "evaluate_model",
      "save_model", "save_report">>

IsPrefix(a, b) == Len(a) <= Len(b) /\ SubSeq(b, 1, Len(a)) = a

Last(q) == q[Len(q)]

\* The table the run was started on, and its category columns.
InputTable == pre[database_filepath].msgs
InputCategories == SubSeq(InputTable.columns, 5, Len(InputTable.columns))

\* The run has produced its evaluation report.
Reported ==
    \/ pc \in {"evaluated", "model_saved", "done"}
    \/ pc = "failed" /\ "evaluate_model" \in Range(steps)
                     /\ Last(steps) # "evaluate_model"

\* The run has written its model file.
ModelWritten ==
    \/ pc \in {"model_saved", "done"}
    \/ pc = "failed" /\ steps # <<>> /\ Last(steps) = "save_report"

\* C1: a run started with any argument count other than two positional
\* arguments only prints the usage message: main() never reads the table,
\* never builds or fits a model, and leaves every file as it was (the corpora
\* download of the import has happened by then).
C1_UsageOnly ==
    (pc # "idle" /\ Len(argv) # 3) =>
        /\ pc \in {"main", "usage"}
        /\ reads = 0
        /\ model = NoModel
        /\ eval = NoEval
        /\ df_report = <<>>
        /\ fs = pre
        /\ Range(steps) \subseteq {"usage"}

\* A usage run after a run that left a model file and a report behind.
C1_Witness ==
    /\ pc = "usage"
    /\ nltk_data
    /\ Len(argv) = 4
    /\ fs[PicklePath].kind = "pkl"
    /\ fs[ReportDbPath].has_report

\* C2: once a run has its report, the category columns of the table (from
\* offset 4 on), the names load_data returned, the label columns the model
\* was fitted on and the class values of the report rows are one sequence.
C2_SameCategories ==
    Reported =>
        /\ category_names = InputCategories
        /\ \A i \in 1..Len(Y) :
               Y[i] = SubSeq(InputTable.rows[i], 5, Len(InputTable.columns))
        /\ Len(model.best_estimator_.classes) = Len(InputCategories)
        /\ Len(df_report) = Len(InputCategories)
        /\ \A i \in 1..Len(df_report) : df_report[i].class = InputCategories[i]

C2_Witness ==
    /\ pc = "done"
    /\ Len(df_report) = 2
    /\ df_report[1].class = "related"
    /\ df_report[2].class = "request"
    /\ fs[ReportDbPath].report = df_report

\* C4 as claimed: every report row's support is the size of the test set.
C4_SupportIsTestSize ==
    Reported =>
        \A i \in 1..Len(df_report) : df_report[i].support = 100 * Len(split.test)

\* The held-out rows of the table labelled 1 in category column c.
TestPositives(c) ==
    { j \in 1..Len(split.test) : InputTable.rows[split.test[j]][4 + c] = 1 }

\* C4 amended: every report row's support is the number of held-out rows
\* labelled 1 in that category, which is at most the size of the test set.
C4_SupportIsPositives ==
    Reported =>
        /\ Len(df_report) = Len(InputCategories)
        /\ \A i \in 1..Len(df_report) :
               /\ df_report[i].support = 100 * Cardinality(TestPositives(i))
               /\ df_report[i].support <= 100 * Len(split.test)

\* A report with a category no held-out row has and one every held-out row has.
C4_Witness ==
    /\ Reported
    /\ \E i, j \in 1..Len(df_report) :
           /\ df_report[i].support = 0
           /\ df_report[j].support = 100 * Len(split.test)
           /\ Len(split.test) >= 1

\* C5: the model file written by a run holds a fitted pipeline, not the
\* search wrapper; its vocabulary cap is a candidate no other candidate
\* outscored; and it is the estimator that predicted the run's report.
C5_BestEstimatorSaved ==
    ModelWritten =>
        LET obj == fs[model_filepath].obj
        IN  /\ fs[model_filepath].kind = "pkl"
            /\ obj.type = "Pipeline"
            /\ obj.fitted
            /\ obj.max_features \in {0, MaxFeaturesCap}
            /\ \E b \in 1..2 :
                   /\ <<0, MaxFeaturesCap>>[b] = obj.max_features
                   /\ \A j \in 1..2 :
                          model.mean_test_score[j] <= model.mean_test_score[b]
            /\ obj = eval.estimator

\* A finished run in which the capped candidate scored higher and was saved.
C5_Witness ==
    /\ pc = "done"
    /\ model.mean_test_score = <<0, 1>>
    /\ fs[model_filepath].obj.max_features = MaxFeaturesCap
    /\ fs[model_filepath].obj = eval.estimator

\* C6: whatever the saved model predicts for a text is a vector with one
\* entry per category column of the table it was trained on, each 0 or 1.
C6_BinaryVectorPerCategory ==
    ModelWritten =>
        LET est == fs[model_filepath].obj
        IN  /\ Predictions(est, 1) # {}
            /\ \A P \in Predictions(est, 1) :
                   /\ Len(P[1]) = Len(InputTable.columns) - 4
                   /\ \A c \in 1..Len(P[1]) : P[1][c] \in {0, 1}

\* A saved model with a category it can answer either way.
C6_Witness ==
    /\ pc = "done"
    /\ fs[PicklePath].kind = "pkl"
    /\ \E c \in 1..Len(fs[PicklePath].obj.classes) :
           fs[PicklePath].obj.classes[c] = {0, 1}
    /\ Cardinality(Predictions(fs[PicklePath].obj, 1)) >= 2

\* C7: after a successful run the table df_report of the hard-coded database
\* holds exactly that run's report rows, whichever database was trained on,
\* and no other file holds a report.
C7_ReportReplaced ==
    /\ pc = "done" =>
           /\ fs[ReportDbPath].kind = "db"
           /\ fs[ReportDbPath].has_report
           /\ fs[ReportDbPath].report = df_report
    /\ \A p \in Paths \ {ReportDbPath} : ~fs[p].has_report

\* A second successful run, trained on the other database, whose report
\* differs from the one the first run left.
C7_Witness ==
    /\ pc = "done"
    /\ database_filepath = OtherDbPath
    /\ pre[ReportDbPath].has_report
    /\ pre[ReportDbPath].report # df_report
    /\ fs[ReportDbPath].report = df_report

\* The table Categorized_Messages of file p is as it was when the run began.
MessagesKept(p) ==
    pre[p].has_msgs =>
        /\ fs[p].kind = "db"
        /\ fs[p].has_msgs
        /\ fs[p].msgs = pre[p].msgs

\* C8 as claimed: every run reads the table once and no step changes it.
C8_TableNeverChanged ==
    /\ reads <= 1
    /\ (pc \in {"loaded", "split", "built", "fitted", "evaluated",
                "model_saved", "done"} => reads = 1)
    /\ \A p \in Paths : MessagesKept(p)

\* C8 amended: every run reads the table at most once, exactly once when
\* load_data succeeds, and no step changes it in any file except save_model
\* in the file the model path names; save_report keeps it also when the
\* input database is the report database.
C8_TableChangedOnlyByModelPath ==
    /\ reads <= 1
    /\ (pc \in {"loaded", "split", "built", "fitted", "evaluated",
                "model_saved", "done"} => reads = 1)
    /\ \A p \in Paths :
           \/ MessagesKept(p)
           \/ /\ Len(argv) = 3
              /\ p = model_filepath
              /\ "save_model" \in Range(steps)

\* A finished run trained on the report database itself.
C8_Witness ==
    /\ pc = "done"
    /\ database_filepath = ReportDbPath
    /\ model_filepath = PicklePath
    /\ reads = 1
    /\ fs[ReportDbPath].has_report
    /\ fs[ReportDbPath].has_msgs
    /\ fs[ReportDbPath].msgs = ScenarioTable

\* The report table of the hard-coded database is as it was when the run began.
ReportKept ==
    /\ fs[ReportDbPath].has_report = pre[ReportDbPath].has_report
    /\ fs[ReportDbPath].report = pre[ReportDbPath].report

\* The hard-coded database holds a report the run did not find there.
NewReport ==
    /\ fs[ReportDbPath].has_report
    /\ ~pre[ReportDbPath].has_report \/ fs[ReportDbPath].report # pre[ReportDbPath].report

\* The steps of a run are a prefix of the fixed order, and the step a run
\* fails in is its last; no report is written before the model file; a run
\* failing before save_model leaves every file as it was.
C9_OrderAndEarlyFailure ==
    Len(argv) = 3 =>
        /\ IsPrefix(steps, StepOrder)
        /\ (pc = "done" => steps = StepOrder)
        /\ (steps = StepOrder => pc \in {"done", "failed"})
        /\ (pc = "failed" => steps # <<>>)
        /\ ("save_report" \in Range(steps) => ModelWritten)
        /\ ("save_model" \notin Range(steps) => fs = pre)
        /\ (NewReport => pc = "done")

\* The run failed in save_report.
FailedInSaveReport == pc = "failed" /\ steps = StepOrder

ReportLines == SplitOn(eval.report, "\n")

\* The non-blank atoms of a line, in order.
Atoms(line) == SelectSeq(line, LAMBDA a : a # " ")

\* v hundredths is num/den rounded to the nearest hundredth (0 when den = 0).
IsRatio(v, num, den) ==
    IF den = 0 THEN v = 0
    ELSE 2 * (v * den - 100 * num) <= den /\ 2 * (100 * num - v * den) <= den

TruePos(c) ==
    Cardinality({j \in 1..Len(eval.Y_test) :
                    eval.Y_test[j][c] = 1 /\ eval.Y_pred[j][c] = 1})
PredPos(c) == Cardinality({j \in 1..Len(eval.Y_test) : eval.Y_pred[j][c] = 1})
ActualPos(c) == Cardinality({j \in 1..Len(eval.Y_test) : eval.Y_test[j][c] = 1})

\* C10: classification_report_df never fails on a report of header, blank
\* line, n category lines and the six trailing pieces; it returns one row per
\* line from index 2 up to the last six, in order, with class, precision,
\* recall, f1_score and support from the line's first five fields: the n
\* category rows, no average row, and no row at all when n = 0.
C10_CategoryRowsOnly ==
    /\ pc # "failed"
    /\ pc = "parsed" =>
           /\ Len(ReportLines) = Len(category_names) + 8
           /\ Len(df_report) = Len(ReportLines) - 8
           /\ Len(df_report) = Len(category_names)
           /\ \A i \in 1..Len(df_report) :
                  LET f == Atoms(ReportLines[i + 2])
                      r == df_report[i]
                  IN  /\ Len(f) = 5
                      /\ r.class = f[1]
                      /\ r.class = category_names[i]
                      /\ r.class \notin {"micro", "macro", "weighted", "samples"}
                      /\ Fmt2(r.precision) = f[2]
                      /\ Fmt2(r.recall) = f[3]
                      /\ Fmt2(r.f1_score) = f[4]
                      /\ IsRatio(r.precision, TruePos(i), PredPos(i))
                      /\ IsRatio(r.recall, TruePos(i), ActualPos(i))
                      /\ IsRatio(r.f1_score, 2 * TruePos(i), PredPos(i) + ActualPos(i))
                      /\ r.support = 100 * ActualPos(i)

\* A parsed report of two categories, one of them with f1-score 0.67.
C10_Witness ==
    /\ pc = "parsed"
    /\ Len(df_report) = 2
    /\ df_report[1].f1_score = 67
    /\ df_report[1].precision = 50
    /\ df_report[2].support = 200

\* Every character of a token is a lower-case letter or a digit.
IsLowerAlnum(tok) ==
    \A i \in 1..Len(tok) : tok[i] \in LowerCaseLetters \cup Digits

\* C3 as claimed: every token tokenize returns is lower case, alphanumeric
\* and not an English stop word.
C3_NoStopWordsInOutput ==
    pc = "tokens" =>
        \A i \in 1..Len(lem) :
            /\ lem[i] # <<>>
            /\ IsLowerAlnum(lem[i])
            /\ lem[i] \notin StopWords

====
